---- MODULE Spec2Model ----
(***************************************************************************)
(* Model of the momorot refresh pipeline: the quota gate (RateLimiter),    *)
(* the provider client (AlphaVantageClient), the fetch scheduler           *)
(* (Scheduler.FetchSymbols / worker) and the refresh driver (runRefresh    *)
(* with Orchestrator.ComputeAllIndicators).                                *)
(*                                                                         *)
(* Specifications:                                                         *)
(*   Spec          one refresh of the CLI (runRefresh), workers interleaved*)
(*   SchedulerSpec one FetchSymbols call under Go's goroutine fairness     *)
(*   GateSpec      the RateLimiter API under arbitrary calls               *)
(*   ClientSpec    the provider client called sequentially                 *)
(*   RunsSpec, LogSpec   the run and fetch-log repositories                *)
(*   PersistSpec   runRefresh storing one fetched document                 *)
(*   ScoreSpec, CalcSpec, PrioSpec   the pure functions on bounded inputs  *)
(*   MigSpec       DB.Migrate and DB.Rollback                              *)
(*   RerunSpec     successive refreshes against one database               *)
(*   BufferSpec, ReuseSpec   the Scheduler called directly                 *)
(***************************************************************************)
EXTENDS Integers, Sequences, FiniteSets, TLC

(***************************************************************************)
(* Bounds of the model.                                                    *)
(***************************************************************************)
\* Size of the symbols table (the configured universe).
NumSymbols == 2
\* cfg.Fetcher.MaxWorkers: number of worker goroutines.
MaxWorkers == 2
\* Largest cfg.AlphaVantage.DailyRequestLimit of the modelled configurations.
MaxLimit == 2
\* Clock ticks that make 24 hours (one tick = 24h / Day).
Day == 2
\* Last tick of the modelled clock.
MaxTime == 2
\* Trading dates known to the model.
MaxDate == 2
\* The longest configured lookback, in bars (cfg.Lookbacks.R12M).
Lookback == 1

(***************************************************************************)
(* Program constants.                                                      *)
(***************************************************************************)
\* make(chan FetchResult, 100)
ResultBuffer == 100

Symbols == 1..NumSymbols
Workers == 1..MaxWorkers
Dates   == 1..MaxDate

\* What one HTTP exchange can end in (FetchDailyAdjusted, lines 98-134):
\*   transport  httpClient.Do failed after its retries (line 99)
\*   rejected   a non-200 status, an undecodable body, an "Error Message", a
\*              "Note" or an empty series (lines 108-132)
\*   ok         a document with a non-empty time series
Outcomes == {"transport", "rejected", "ok"}

VARIABLES
    \* ---- RateLimiter (the quota gate)
    dailyLimit,      \* rl.dailyLimit
    requestCount,    \* rl.requestCount
    lastResetTime,   \* rl.lastResetTime, in ticks
    now,             \* time.Now(), in ticks
    \* ---- refresh context
    cancelled,       \* ctx.Done() is closed (deadline passed)
    \* ---- Scheduler.FetchSymbols
    tasks,           \* the closed, buffered tasks channel
    resultsChan,     \* s.resultsChan
    chanClosed,      \* close(s.resultsChan) has run
    wg,              \* sync.WaitGroup counter
    wpc,             \* position of each worker goroutine
    wtask,           \* symbol of the task a worker holds (0: none)
    wres,            \* FetchResult the worker is about to deliver
    \* ---- runRefresh (main goroutine)
    pc,              \* position of runRefresh
    activeSymbols,   \* symbolNames, from ListActive
    results,         \* results returned by FetchSymbols
    idx,             \* results processed so far
    successCount,
    failureCount,
    runID,           \* id returned by runRepo.Create (0: none)
    exitCode,        \* process exit code (-1: still running)
    \* ---- store
    symbolsTable,    \* active symbols of table symbols
    runs,            \* table runs, indexed by run_id
    fetchLog,        \* table fetch_log
    prices,          \* table prices: the dates stored per symbol
    indicators,      \* table indicators: rows of this refresh
    \* ---- history of the run (not program state)
    invoked,         \* provider-client invocations per symbol
    httpSent,        \* HTTP requests sent
    recordCalls,     \* RecordRequest calls
    sentInWindow,    \* HTTP requests sent since the gate's last reset
    observed,        \* workers that took the ctx.Done() branch
    analytics,       \* what ComputeAllIndicators did
    \* ---- results returned to a direct caller of the RateLimiter (GateSpec)
    snapshot,        \* the last GetStatus snapshot
    waitResult,      \* what the last Wait returned
    \* ---- results returned to a direct caller of the repositories
    logErr,          \* what the last FetchLogRepository.Log returned
    \* ---- runRefresh storing one fetched document (lines 300-338)
    barRows,         \* prices rows of the symbol: date -> stored value, or NoRow
    barsBefore,      \* barRows when the refresh began (history)
    timeSeries,      \* dailyData.TimeSeries: date -> the bar's numeric string
    todo,            \* keys of the map the range loop has not visited yet
    stored,          \* the loop's counter of inserted bars
    dbFailed,        \* some priceRepo.Create failed other than on UNIQUE (history)
    ppc,             \* position of the loop
    \* ---- Scorer.ScoreAndRank called on its own
    indicatorsList,  \* the argument
    scoringConfig,   \* s.config
    symbolScores,    \* what the call returned: [err, list]
    \* ---- IndicatorCalculator.ComputeIndicators called on its own
    priceBars,       \* the argument prices
    calcResult,      \* what the call returned
    \* ---- DB.Migrate and DB.Rollback
    migTable,        \* table schema_migrations exists
    versionRows,     \* versions recorded in schema_migrations (committed)
    schemaObjects,   \* versions whose schema objects exist (committed)
    tx,              \* what the open transaction has written, or NoTx
    mpc,             \* position of the running call
    mIdx,            \* Migrate's position in its list of migrations
    currentVersion,  \* the call's currentVersion
    migErr,          \* what the last call returned
    migrations,      \* the versions of the list of migrations, ascending
    \* ---- PrioritizeFetchOrder called on its own
    symbolList,      \* the argument symbols
    lastFetchTimes,  \* the argument lastFetchTimes: symbol -> time, 0 if absent
    orderedSymbols,  \* what the call returned
    \* ---- successive refreshes against one database
    indicatorRows,   \* table indicators: rows [symbol, date, rank]
    \* ---- the Scheduler of a direct caller
    resultCap,       \* capacity of s.resultsChan (NewScheduler)
    reused           \* FetchSymbols was called again on the same Scheduler

gateVars  == <<dailyLimit, requestCount, lastResetTime, now>>
schedVars == <<tasks, resultsChan, chanClosed, wg, wpc, wtask, wres>>
mainVars  == <<pc, activeSymbols, results, idx, successCount, failureCount,
               runID, exitCode>>
storeVars == <<symbolsTable, runs, fetchLog, prices, indicators>>
histVars  == <<invoked, httpSent, recordCalls, sentInWindow, observed, analytics>>
\* Variables of the components checked on their own, outside a refresh
persistVars == <<barRows, barsBefore, timeSeries, todo, stored, dbFailed, ppc>>
scoreVars == <<indicatorsList, scoringConfig, symbolScores>>
calcVars  == <<priceBars, calcResult>>
migVars   == <<migTable, versionRows, schemaObjects, tx, mpc, mIdx, currentVersion,
               migErr, migrations>>
prioVars  == <<symbolList, lastFetchTimes, orderedSymbols>>
reuseVars == <<resultCap, reused>>
extVars   == <<logErr, persistVars, scoreVars, calcVars, migVars, prioVars,
               indicatorRows, reuseVars>>
\* What a component checked on its own leaves alone, besides the refresh
exceptRepo    == <<persistVars, scoreVars, calcVars, migVars, prioVars, indicatorRows,
                  reuseVars>>
exceptPersist == <<logErr, scoreVars, calcVars, migVars, prioVars, indicatorRows,
                  reuseVars>>
exceptScore   == <<logErr, persistVars, calcVars, migVars, prioVars, indicatorRows,
                  reuseVars>>
exceptCalc    == <<logErr, persistVars, scoreVars, migVars, prioVars, indicatorRows,
                  reuseVars>>
exceptMig     == <<logErr, persistVars, scoreVars, calcVars, prioVars, indicatorRows,
                  reuseVars>>
exceptPrio    == <<logErr, persistVars, scoreVars, calcVars, migVars, indicatorRows,
                  reuseVars>>
exceptRerun   == <<logErr, persistVars, scoreVars, calcVars, migVars, prioVars,
                  reuseVars>>
\* Variables no step of the refresh touches
auxVars   == <<snapshot, waitResult, extVars>>
\* Variables no direct call of the RateLimiter touches
refreshVars == <<cancelled, schedVars, mainVars, storeVars, histVars, extVars>>
vars == <<gateVars, cancelled, schedVars, mainVars, storeVars, histVars, auxVars>>

(***************************************************************************)
(* RateLimiter                                                             *)
(***************************************************************************)
\* Mutant of WaitResets: the reset waits for more than 24 hours
WaitResetsLate(t, last) == t - last > Day

\* Wait, line 41: time.Since(rl.lastResetTime) >= 24*time.Hour
WaitResets(t, last) == t - last >= Day

\* Mutant of WaitAllows: one request more than the limit is let through
WaitAllowsAtLimit(count, limit) == count <= limit

\* Wait, line 46 negated: the request is allowed
WaitAllows(count, limit) == count < limit

\* Wait, lines 41-43: the count after the reset test
CountAfterWait(count, t, last) == IF WaitResets(t, last) THEN 0 ELSE count

\* Wait, lines 41-43: lastResetTime after the reset test
ResetTimeAfterWait(t, last) == IF WaitResets(t, last) THEN t ELSE last

\* Wait as a whole: TRUE iff it returns nil
WaitSucceeds(count, limit, t, last) ==
    WaitAllows(CountAfterWait(count, t, last), limit)

\* Mutant of RequestsLeft: the clamp at zero is missing
RequestsLeftNoClamp(count, limit) == limit - count

\* GetStatus, lines 78-81
RequestsLeft(count, limit) ==
    IF limit - count < 0 THEN 0 ELSE limit - count

\* GetStatus, lines 85-91
GetStatus(count, limit, last) ==
    [DailyLimit    |-> limit,
     RequestsUsed  |-> count,
     RequestsLeft  |-> RequestsLeft(count, limit),
     LastResetTime |-> last,
     NextResetTime |-> last + Day]

(***************************************************************************)
(* FetchResult values and the provider client's error for an outcome       *)
(***************************************************************************)
\* worker, lines 89-94: the result emitted on the ctx.Done() branch
CancelledResult(s) == [symbol |-> s, success |-> FALSE, err |-> "cancelled"]

\* fetchSymbol, lines 113-130: the result for the client's error ("none": nil)
FetchResultOf(s, err) ==
    IF err # "none"
    THEN [symbol |-> s, success |-> FALSE, err |-> err]
    ELSE [symbol |-> s, success |-> TRUE,  err |-> "none"]

\* FetchDailyAdjusted, lines 98-134: the error returned for an HTTP outcome
ClientError(outcome) == IF outcome = "ok" THEN "none" ELSE outcome

\* FetchDailyAdjusted, lines 98-105: RecordRequest is reached only when
\* httpClient.Do returned no error
RecordsAfter(outcome) == outcome # "transport"

NoResult == [symbol |-> 0, success |-> FALSE, err |-> "none"]

(***************************************************************************)
(* Scheduler.worker: one goroutine per w \in Workers                       *)
(***************************************************************************)
\* for task := range tasks: a task is received
WorkerRecv(w) ==
    /\ wpc[w] = "recv"
    /\ tasks # <<>>
    /\ wtask' = [wtask EXCEPT ![w] = Head(tasks)]
    /\ tasks' = Tail(tasks)
    /\ wpc' = [wpc EXCEPT ![w] = "select"]
    /\ UNCHANGED auxVars
    /\ UNCHANGED <<gateVars, cancelled, resultsChan, chanClosed, wg, wres,
                   mainVars, storeVars, histVars>>

\* for task := range tasks: the channel is closed and drained; defer wg.Done()
WorkerExit(w) ==
    /\ wpc[w] = "recv"
    /\ tasks = <<>>
    /\ wpc' = [wpc EXCEPT ![w] = "done"]
    /\ wg' = wg - 1
    /\ UNCHANGED auxVars
    /\ UNCHANGED <<gateVars, cancelled, tasks, resultsChan, chanClosed, wtask,
                   wres, mainVars, storeVars, histVars>>

\* Mutant of WorkerSelect: the ctx.Done() branch continues without emitting a
\* result for its task
WorkerSelectDrop(w) ==
    /\ wpc[w] = "select"
    /\ IF cancelled
       THEN /\ observed' = [observed EXCEPT ![w] = TRUE]
            /\ wpc' = [wpc EXCEPT ![w] = "recv"]
            /\ UNCHANGED wres
       ELSE /\ wpc' = [wpc EXCEPT ![w] = "wait"]
            /\ UNCHANGED <<wres, observed>>
    /\ UNCHANGED auxVars
    /\ UNCHANGED <<gateVars, cancelled, tasks, resultsChan, chanClosed, wg, wtask,
                   mainVars, storeVars, invoked, httpSent, recordCalls,
                   sentInWindow, analytics>>

\* Mutant of WorkerSelect: the ctx.Done() branch lacks its continue, so the
\* worker goes on to fetch the task
WorkerSelectFallthrough(w) ==
    /\ wpc[w] = "select"
    /\ observed' = [observed EXCEPT ![w] = cancelled \/ observed[w]]
    /\ wpc' = [wpc EXCEPT ![w] = "wait"]
    /\ UNCHANGED auxVars
    /\ UNCHANGED <<gateVars, cancelled, tasks, resultsChan, chanClosed, wg, wtask,
                   wres, mainVars, storeVars, invoked, httpSent, recordCalls,
                   sentInWindow, analytics>>

\* select { case <-ctx.Done(): ...; default: }
WorkerSelect(w) ==
    /\ wpc[w] = "select"
    /\ IF cancelled
       THEN /\ wres' = [wres EXCEPT ![w] = CancelledResult(wtask[w])]
            /\ observed' = [observed EXCEPT ![w] = TRUE]
            /\ wpc' = [wpc EXCEPT ![w] = "push"]
       ELSE /\ wpc' = [wpc EXCEPT ![w] = "wait"]
            /\ UNCHANGED <<wres, observed>>
    /\ UNCHANGED auxVars
    /\ UNCHANGED <<gateVars, cancelled, tasks, resultsChan, chanClosed, wg, wtask,
                   mainVars, storeVars, invoked, httpSent, recordCalls,
                   sentInWindow, analytics>>

\* fetchSymbol -> FetchDaily, steps 1-3: the quota gate's check; when it
\* succeeds the GET is issued
WorkerWait(w) ==
    /\ wpc[w] = "wait"
    /\ invoked' = [invoked EXCEPT ![wtask[w]] = @ + 1]
    /\ requestCount' = CountAfterWait(requestCount, now, lastResetTime)
    /\ lastResetTime' = ResetTimeAfterWait(now, lastResetTime)
    /\ IF WaitSucceeds(requestCount, dailyLimit, now, lastResetTime)
       THEN /\ wpc' = [wpc EXCEPT ![w] = "record"]
            /\ httpSent' = httpSent + 1
            /\ sentInWindow' =
                 (IF WaitResets(now, lastResetTime) THEN 0 ELSE sentInWindow) + 1
            /\ UNCHANGED wres
       ELSE /\ wres' = [wres EXCEPT ![w] = FetchResultOf(wtask[w], "quota")]
            /\ wpc' = [wpc EXCEPT ![w] = "push"]
            /\ sentInWindow' =
                 IF WaitResets(now, lastResetTime) THEN 0 ELSE sentInWindow
            /\ UNCHANGED httpSent
    /\ UNCHANGED auxVars
    /\ UNCHANGED <<dailyLimit, now, cancelled, tasks, resultsChan, chanClosed, wg, wtask,
                   mainVars, storeVars, recordCalls, observed, analytics>>

\* FetchDaily, steps 4-7: record(), then the outcome of the exchange decides
\* the result
WorkerRecord(w) ==
    /\ wpc[w] = "record"
    /\ requestCount' = requestCount + 1
    /\ recordCalls' = recordCalls + 1
    /\ \E o \in Outcomes :
         wres' = [wres EXCEPT ![w] = FetchResultOf(wtask[w], ClientError(o))]
    /\ wpc' = [wpc EXCEPT ![w] = "push"]
    /\ UNCHANGED auxVars
    /\ UNCHANGED <<dailyLimit, lastResetTime, now, cancelled, tasks, resultsChan,
                   chanClosed, wg, wtask, mainVars, storeVars, invoked, httpSent, sentInWindow,
                   observed, analytics>>

\* s.resultsChan <- result (blocks while the buffer is full; a send on a
\* closed channel never succeeds)
WorkerPush(w) ==
    /\ wpc[w] = "push"
    /\ ~chanClosed
    /\ Len(resultsChan) < resultCap
    /\ resultsChan' = Append(resultsChan, wres[w])
    /\ wres' = [wres EXCEPT ![w] = NoResult]
    /\ wtask' = [wtask EXCEPT ![w] = 0]
    /\ wpc' = [wpc EXCEPT ![w] = "recv"]
    /\ UNCHANGED auxVars
    /\ UNCHANGED <<gateVars, cancelled, tasks, chanClosed, wg, mainVars,
                   storeVars, histVars>>

WorkerStep(w) ==
    \/ WorkerRecv(w)
    \/ WorkerExit(w)
    \/ WorkerSelect(w)
    \/ WorkerWait(w)
    \/ WorkerRecord(w)
    \/ WorkerPush(w)

(***************************************************************************)
(* Scheduler.FetchSymbols                                                  *)
(***************************************************************************)
\* go func() { wg.Wait(); close(s.resultsChan) }()
CloseResults ==
    /\ pc = "collect"
    /\ wg = 0
    /\ ~chanClosed
    /\ chanClosed' = TRUE
    /\ UNCHANGED auxVars
    /\ UNCHANGED <<gateVars, cancelled, tasks, resultsChan, wg, wpc, wtask, wres, mainVars, storeVars, histVars>>

\* Mutant of Collect: the results are collected only after the workers are
\* done and the channel is closed
CollectAfterClose ==
    /\ pc = "collect"
    /\ chanClosed
    /\ resultsChan # <<>>
    /\ results' = Append(results, Head(resultsChan))
    /\ resultsChan' = Tail(resultsChan)
    /\ UNCHANGED auxVars
    /\ UNCHANGED <<gateVars, cancelled, tasks, chanClosed, wg, wpc, wtask, wres, pc,
                   activeSymbols, idx, successCount, failureCount, runID,
                   exitCode, storeVars, histVars>>

\* for result := range s.resultsChan { results = append(results, result) }
Collect ==
    /\ pc = "collect"
    /\ resultsChan # <<>>
    /\ results' = Append(results, Head(resultsChan))
    /\ resultsChan' = Tail(resultsChan)
    /\ UNCHANGED auxVars
    /\ UNCHANGED <<gateVars, cancelled, tasks, chanClosed, wg, wpc, wtask, wres, pc, activeSymbols, idx, successCount, failureCount, runID,
                   exitCode, storeVars, histVars>>

\* the range loop ends on the closed, drained channel; FetchSymbols returns
CollectDone ==
    /\ pc = "collect"
    /\ resultsChan = <<>>
    /\ chanClosed
    /\ pc' = "process"
    /\ UNCHANGED auxVars
    /\ UNCHANGED <<gateVars, cancelled, schedVars, activeSymbols, results, idx,
                   successCount, failureCount, runID, exitCode, storeVars, histVars>>

(***************************************************************************)
(* Store operations used by the refresh                                    *)
(***************************************************************************)
\* RunRepository.Create: INSERT INTO runs (status, notes) VALUES ('RUNNING', ?)
NewRun == [status |-> "RUNNING", processed |-> 0, failed |-> 0, finished |-> FALSE]

\* RunRepository.Finish: UPDATE runs SET finished_at, status, counts WHERE run_id
FinishRun(tbl, id, status, processed, failed) ==
    [r \in DOMAIN tbl |->
        IF r = id
        THEN [status |-> status, processed |-> processed, failed |-> failed,
              finished |-> TRUE]
        ELSE tbl[r]]

\* Mutant of LogInsert: only successful fetches are logged
LogInsertOkOnly(tbl, row) ==
    IF ~row.ok \/ \E r \in tbl : r.run = row.run /\ r.symbol = row.symbol
    THEN tbl
    ELSE tbl \cup {row}

\* FetchLogRepository.Log: a plain INSERT; PRIMARY KEY(run_id, symbol) rejects a
\* second row for the pair, and runRefresh ignores Log's error
LogInsert(tbl, row) ==
    IF \E r \in tbl : r.run = row.run /\ r.symbol = row.symbol
    THEN tbl
    ELSE tbl \cup {row}

\* runRefresh, lines 386-389
RunStatus(failed) == IF failed > 0 THEN "ERROR" ELSE "OK"

\* SymbolRepository.ListActive: ORDER BY symbol
RECURSIVE SortedSeq(_)
SortedSeq(S) ==
    IF S = {} THEN <<>>
    ELSE LET m == CHOOSE x \in S : \A y \in S : x <= y
         IN <<m>> \o SortedSeq(S \ {m})

\* ComputeIndicators: the series must hold lookback+1 bars (calculateReturn,
\* line 334; CalculateVolatility, line 356)
NeedBars == Lookback + 1

\* A "compact" document: the latest dates, from some date on
DocWindows == {j..MaxDate : j \in Dates}

(***************************************************************************)
(* runRefresh                                                              *)
(***************************************************************************)
\* log.Fatalf: the process exits with code 1, nothing after it runs
Fatal ==
    /\ pc' = "exited"
    /\ exitCode' = 1

\* runRepo.Create("CLI refresh"), then fetch.NewAlphaVantageClient with
\* cfg.AlphaVantage.DailyRequestLimit (config validation: at least 1)
CreateRun ==
    /\ pc = "start"
    /\ runs' = Append(runs, NewRun)
    /\ runID' = Len(runs) + 1
    /\ requestCount' = 0
    /\ lastResetTime' = now
    /\ pc' = "list"
    /\ UNCHANGED auxVars
    /\ UNCHANGED <<dailyLimit, now, cancelled, schedVars, activeSymbols, results, idx,
                   successCount, failureCount, exitCode, symbolsTable, fetchLog,
                   prices, indicators, histVars>>

\* symbolRepo.ListActive
ListActive ==
    /\ pc = "list"
    /\ activeSymbols' = SortedSeq(symbolsTable)
    /\ pc' = "fetch"
    /\ UNCHANGED auxVars
    /\ UNCHANGED <<gateVars, cancelled, schedVars, results, idx, successCount,
                   failureCount, runID, exitCode, storeVars, histVars>>

\* FetchSymbols, lines 45-47: "no symbols provided"; runRefresh, line 267
FetchNoSymbols ==
    /\ pc = "fetch"
    /\ activeSymbols = <<>>
    /\ Fatal
    /\ UNCHANGED auxVars
    /\ UNCHANGED <<gateVars, cancelled, schedVars, activeSymbols, results, idx,
                   successCount, failureCount, runID, storeVars, histVars>>

\* FetchSymbols, lines 50-70: the task queue is filled and closed, the workers
\* and the closer goroutine are started
FetchSymbolsStart ==
    /\ pc = "fetch"
    /\ activeSymbols # <<>>
    /\ tasks' = activeSymbols
    /\ wg' = MaxWorkers
    /\ wpc' = [w \in Workers |-> "recv"]
    /\ pc' = "collect"
    /\ UNCHANGED auxVars
    /\ UNCHANGED <<gateVars, cancelled, resultsChan, chanClosed, wtask, wres,
                   activeSymbols, results, idx, successCount, failureCount, runID,
                   exitCode, storeVars, histVars>>

\* runRefresh, lines 341-354: a failed or cancelled result
ProcessFailed ==
    /\ pc = "process"
    /\ idx < Len(results)
    /\ ~results[idx + 1].success
    /\ failureCount' = failureCount + 1
    /\ fetchLog' = LogInsert(fetchLog,
           [run |-> runID, symbol |-> results[idx + 1].symbol, ok |-> FALSE,
            rows |-> 0])
    /\ idx' = idx + 1
    /\ UNCHANGED auxVars
    /\ UNCHANGED <<gateVars, cancelled, schedVars, pc, activeSymbols, results,
                   successCount, runID, exitCode, symbolsTable, runs, prices,
                   indicators, histVars>>

\* AlphaVantageClient.FetchDailyAdjusted(s, ...) when the HTTP exchange, if one
\* takes place, ends in outcome o: Wait, the GET, RecordRequest
FetchDailyAdjusted(s, o) ==
    LET count == CountAfterWait(requestCount, now, lastResetTime)
        sent  == IF WaitResets(now, lastResetTime) THEN 0 ELSE sentInWindow
        ok    == WaitAllows(count, dailyLimit)
    IN /\ invoked' = [invoked EXCEPT ![s] = @ + 1]
       /\ lastResetTime' = ResetTimeAfterWait(now, lastResetTime)
       /\ requestCount' = IF ok /\ RecordsAfter(o) THEN count + 1 ELSE count
       /\ recordCalls' = IF ok /\ RecordsAfter(o) THEN recordCalls + 1 ELSE recordCalls
       /\ httpSent' = IF ok THEN httpSent + 1 ELSE httpSent
       /\ sentInWindow' = IF ok THEN sent + 1 ELSE sent

\* The error FetchDailyAdjusted returns in the current state for outcome o
AdjustedError(o) ==
    IF WaitSucceeds(requestCount, dailyLimit, now, lastResetTime)
    THEN ClientError(o)
    ELSE "quota"

\* runRefresh, lines 277-298: a successful result whose second fetch
\* (avClient.FetchDailyAdjusted) fails: quota, transport, status or body
ProcessRefetchFailed ==
    /\ pc = "process"
    /\ idx < Len(results)
    /\ results[idx + 1].success
    /\ \E o \in Outcomes :
         /\ AdjustedError(o) # "none"
         /\ FetchDailyAdjusted(results[idx + 1].symbol, o)
    /\ failureCount' = failureCount + 1
    /\ successCount' = successCount + 1 - 1
    /\ fetchLog' = LogInsert(fetchLog,
           [run |-> runID, symbol |-> results[idx + 1].symbol, ok |-> FALSE,
            rows |-> 0])
    /\ idx' = idx + 1
    /\ UNCHANGED auxVars
    /\ UNCHANGED <<dailyLimit, now, cancelled, schedVars, pc, activeSymbols, results, runID,
                   exitCode, symbolsTable, runs, prices, indicators, observed,
                   analytics>>

\* runRefresh, lines 277-340: a successful result whose second fetch returns a
\* document; each bar is inserted (a bar already stored is skipped)
ProcessStored ==
    /\ pc = "process"
    /\ idx < Len(results)
    /\ results[idx + 1].success
    /\ AdjustedError("ok") = "none"
    /\ FetchDailyAdjusted(results[idx + 1].symbol, "ok")
    /\ successCount' = successCount + 1
    /\ \E doc \in DocWindows :
         LET s == results[idx + 1].symbol IN
         /\ prices' = [prices EXCEPT ![s] = @ \cup doc]
         /\ fetchLog' = LogInsert(fetchLog,
                [run |-> runID, symbol |-> s, ok |-> TRUE,
                 rows |-> Cardinality(doc \ prices[s])])
    /\ idx' = idx + 1
    /\ UNCHANGED auxVars
    /\ UNCHANGED <<dailyLimit, now, cancelled, schedVars, pc, activeSymbols, results,
                   failureCount, runID, exitCode, symbolsTable, runs, indicators,
                   observed, analytics>>

\* runRefresh, line 355: the results loop ends
ProcessDone ==
    /\ pc = "process"
    /\ idx = Len(results)
    /\ pc' = "analytics"
    /\ UNCHANGED auxVars
    /\ UNCHANGED <<gateVars, cancelled, schedVars, activeSymbols, results, idx,
                   successCount, failureCount, runID, exitCode, storeVars, histVars>>

(***************************************************************************)
(* Orchestrator.ComputeAllIndicators, as called by runRefresh line 379      *)
(***************************************************************************)
\* fetchPricesForSymbol and ComputeIndicators can succeed for s only if the
\* stored series is long enough; with enough bars a zero price still fails it
HasHistory(s) == Cardinality(prices[s]) >= NeedBars

NotRun == [err |-> "not_run", computed |-> {}, survivors |-> {}, zero |-> {}]

\* lines 56-77: no symbol yields indicators: "no indicators could be computed"
AnalyticsNoIndicators ==
    /\ pc = "analytics"
    /\ \E zero \in SUBSET {s \in symbolsTable : HasHistory(s)} :
         /\ {s \in symbolsTable : HasHistory(s)} \ zero = {}
         /\ analytics' = [err |-> "no_indicators", computed |-> {},
                          survivors |-> {}, zero |-> zero]
    /\ Fatal
    /\ UNCHANGED auxVars
    /\ UNCHANGED <<gateVars, cancelled, schedVars, activeSymbols, results, idx,
                   successCount, failureCount, runID, storeVars, invoked, httpSent,
                   recordCalls, sentInWindow, observed>>

\* lines 80-83 with ScoreAndRank lines 93-111: the breadth and liquidity filters
\* remove every indicator: "no symbols passed filtering criteria"
AnalyticsNoSurvivors ==
    /\ pc = "analytics"
    /\ \E zero \in SUBSET {s \in symbolsTable : HasHistory(s)} :
         LET computed == {s \in symbolsTable : HasHistory(s)} \ zero IN
         /\ computed # {}
         /\ analytics' = [err |-> "no_survivors", computed |-> computed,
                          survivors |-> {}, zero |-> zero]
    /\ Fatal
    /\ UNCHANGED auxVars
    /\ UNCHANGED <<gateVars, cancelled, schedVars, activeSymbols, results, idx,
                   successCount, failureCount, runID, storeVars, invoked, httpSent,
                   recordCalls, sentInWindow, observed>>

\* lines 119-122: indicatorRepo.UpsertBatch fails: "failed to save indicators"
AnalyticsUpsertFailed ==
    /\ pc = "analytics"
    /\ \E zero \in SUBSET {s \in symbolsTable : HasHistory(s)} :
         LET computed == {s \in symbolsTable : HasHistory(s)} \ zero IN
         \E surv \in SUBSET computed :
            /\ surv # {}
            /\ analytics' = [err |-> "upsert_failed", computed |-> computed,
                             survivors |-> surv, zero |-> zero]
    /\ Fatal
    /\ UNCHANGED auxVars
    /\ UNCHANGED <<gateVars, cancelled, schedVars, activeSymbols, results, idx,
                   successCount, failureCount, runID, storeVars, invoked, httpSent,
                   recordCalls, sentInWindow, observed>>

\* lines 85-124: the survivors are ranked and their rows are stored
AnalyticsOK ==
    /\ pc = "analytics"
    /\ \E zero \in SUBSET {s \in symbolsTable : HasHistory(s)} :
         LET computed == {s \in symbolsTable : HasHistory(s)} \ zero IN
         \E surv \in SUBSET computed :
            /\ surv # {}
            /\ analytics' = [err |-> "none", computed |-> computed,
                             survivors |-> surv, zero |-> zero]
            /\ indicators' = indicators \cup surv
    /\ pc' = "finish"
    /\ UNCHANGED auxVars
    /\ UNCHANGED <<gateVars, cancelled, schedVars, activeSymbols, results, idx,
                   successCount, failureCount, runID, exitCode, symbolsTable, runs,
                   fetchLog, prices, invoked, httpSent, recordCalls, sentInWindow,
                   observed>>

\* runRefresh, lines 386-392 and the return of main: exit code 0
Finish ==
    /\ pc = "finish"
    /\ runs' = FinishRun(runs, runID, RunStatus(failureCount), successCount,
                         failureCount)
    /\ pc' = "exited"
    /\ exitCode' = 0
    /\ UNCHANGED auxVars
    /\ UNCHANGED <<gateVars, cancelled, schedVars, activeSymbols, results, idx,
                   successCount, failureCount, runID, symbolsTable, fetchLog, prices,
                   indicators, histVars>>

(***************************************************************************)
(* Environment                                                             *)
(***************************************************************************)
\* The deadline of context.WithTimeout(…, 5*time.Minute) passes while
\* FetchSymbols runs
Cancel ==
    /\ pc = "collect"
    /\ ~cancelled
    /\ cancelled' = TRUE
    /\ UNCHANGED auxVars
    /\ UNCHANGED <<gateVars, schedVars, mainVars, storeVars, histVars>>

(***************************************************************************)
(* One refresh                                                             *)
(***************************************************************************)
\* No FetchSymbols call is running
SchedIdle ==
    /\ cancelled = FALSE
    /\ tasks = <<>>
    /\ resultsChan = <<>>
    /\ chanClosed = FALSE
    /\ wg = 0
    /\ wpc = [w \in Workers |-> "idle"]
    /\ wtask = [w \in Workers |-> 0]
    /\ wres = [w \in Workers |-> NoResult]

\* runRefresh has not started
MainIdle ==
    /\ pc = "start"
    /\ activeSymbols = <<>>
    /\ results = <<>>
    /\ idx = 0
    /\ successCount = 0
    /\ failureCount = 0
    /\ runID = 0
    /\ exitCode = -1

HistEmpty ==
    /\ invoked = [s \in Symbols |-> 0]
    /\ httpSent = 0
    /\ recordCalls = 0
    /\ sentInWindow = 0
    /\ observed = [w \in Workers |-> FALSE]
    /\ analytics = NotRun

NoStatus == [DailyLimit |-> 0, RequestsUsed |-> 0, RequestsLeft |-> 0,
             LastResetTime |-> 0, NextResetTime |-> 0]

\* No repository call has returned
RepoIdle == logErr = "none"

\* No row of table prices is present
NoRow == -1

\* No document is being stored
PersistIdle ==
    /\ barRows = [d \in Dates |-> NoRow]
    /\ barsBefore = [d \in Dates |-> NoRow]
    /\ timeSeries = <<>>
    /\ todo = {}
    /\ stored = 0
    /\ dbFailed = FALSE
    /\ ppc = "idle"

\* ScoreAndRank has not been called
NotScored == [err |-> "not called", list |-> <<>>]

ScoreIdle ==
    /\ indicatorsList = <<>>
    /\ scoringConfig = [PenaltyLambda |-> 0, MinADV |-> 0, BreadthMinPositive |-> 0]
    /\ symbolScores = NotScored

\* ComputeIndicators has not been called
NotComputed == [err |-> "not called"]

CalcIdle ==
    /\ priceBars = <<>>
    /\ calcResult = NotComputed

\* No transaction is open
NoTx == [open |-> FALSE, rows |-> {}, objects |-> {}]

\* The schema as the refresh finds it: migrated, no call running
MigIdle ==
    /\ migTable = TRUE
    /\ versionRows = {1}
    /\ schemaObjects = {1}
    /\ tx = NoTx
    /\ mpc = "idle"
    /\ mIdx = 0
    /\ currentVersion = 0
    /\ migErr = "none"
    /\ migrations = <<1>>

\* PrioritizeFetchOrder has not been called
NotOrdered == <<0>>

PrioIdle ==
    /\ symbolList = <<>>
    /\ lastFetchTimes = <<>>
    /\ orderedSymbols = NotOrdered

\* Every component checked on its own is at rest, except component c
OthersIdle(c) ==
    /\ c = "scheduler" \/ (resultCap = ResultBuffer /\ reused = FALSE)
    /\ c = "rerun" \/ indicatorRows = {}
    /\ c = "prioritize" \/ PrioIdle
    /\ c = "migrate" \/ MigIdle
    /\ c = "calc" \/ CalcIdle
    /\ c = "repo" \/ RepoIdle
    /\ c = "persist" \/ PersistIdle
    /\ c = "score" \/ ScoreIdle

AuxIdle ==
    /\ snapshot = NoStatus
    /\ waitResult = "none"
    /\ OthersIdle("refresh")

\* NewRateLimiter(dailyLimit) at time 0; config validation has dailyLimit >= 1
GateNew ==
    /\ dailyLimit \in 1..MaxLimit
    /\ requestCount = 0
    /\ lastResetTime = 0
    /\ now = 0

\* The store as the refresh finds it: the active symbols are 1..n, and the
\* store is either fresh (no bar) or bootstrapped (a bar for every date of every
\* active symbol). The gate is created by the refresh, which lasts minutes, so
\* no 24 hours pass in Spec: the clock moves in GateSpec.
Init ==
    /\ GateNew
    /\ SchedIdle
    /\ MainIdle
    /\ \E n \in 0..NumSymbols : symbolsTable = 1..n
    /\ runs = <<>>
    /\ fetchLog = {}
    /\ \E old \in {{}, Dates} :
         prices = [s \in Symbols |-> IF s \in symbolsTable THEN old ELSE {}]
    /\ indicators = {}
    /\ HistEmpty
    /\ AuxIdle

Next ==
    \/ CreateRun
    \/ ListActive
    \/ FetchNoSymbols
    \/ FetchSymbolsStart
    \/ \E w \in Workers : WorkerStep(w)
    \/ CloseResults
    \/ Collect
    \/ CollectDone
    \/ ProcessFailed
    \/ ProcessRefetchFailed
    \/ ProcessStored
    \/ ProcessDone
    \/ AnalyticsNoIndicators
    \/ AnalyticsNoSurvivors
    \/ AnalyticsUpsertFailed
    \/ AnalyticsOK
    \/ Finish
    \/ Cancel

Spec == Init /\ [][Next]_vars

(***************************************************************************)
(* One call of FetchSymbols on a non-empty symbol list: runRefresh up to   *)
(* the return of the results, the workers, and the context's cancellation. *)
(***************************************************************************)
SchedulerInit ==
    /\ GateNew
    /\ SchedIdle
    /\ MainIdle
    /\ \E n \in 1..NumSymbols : symbolsTable = 1..n
    /\ runs = <<>>
    /\ fetchLog = {}
    /\ prices = [s \in Symbols |-> {}]
    /\ indicators = {}
    /\ HistEmpty
    /\ AuxIdle

SchedulerNext ==
    \/ CreateRun
    \/ ListActive
    \/ FetchSymbolsStart
    \/ \E w \in Workers : WorkerStep(w)
    \/ CloseResults
    \/ Collect
    \/ CollectDone
    \/ Cancel

\* Goroutines that can run are eventually run (Go's scheduler), and the
\* provider answers every request (the HTTP client has a timeout)
SchedulerSpec ==
    /\ SchedulerInit
    /\ [][SchedulerNext]_vars
    /\ \A w \in Workers : WF_vars(WorkerStep(w))
    /\ WF_vars(CloseResults)
    /\ WF_vars(Collect)
    /\ WF_vars(CollectDone)

(***************************************************************************)
(* The RateLimiter under arbitrary calls of Wait, RecordRequest, GetStatus  *)
(* and Reset. Each call holds rl.mu for its whole body, so calls of         *)
(* concurrent callers are atomic steps in some order.                       *)
(***************************************************************************)
\* The model stops counting recorded requests here
MaxCount == MaxLimit + 1

\* rl.Wait()
GateWait ==
    /\ requestCount' = CountAfterWait(requestCount, now, lastResetTime)
    /\ lastResetTime' = ResetTimeAfterWait(now, lastResetTime)
    /\ waitResult' = IF WaitSucceeds(requestCount, dailyLimit, now, lastResetTime)
                     THEN "ok" ELSE "quota"
    /\ UNCHANGED <<dailyLimit, now, snapshot>>
    /\ UNCHANGED refreshVars

\* rl.RecordRequest()
GateRecord ==
    /\ requestCount < MaxCount
    /\ requestCount' = requestCount + 1
    /\ UNCHANGED <<dailyLimit, lastResetTime, now, snapshot, waitResult>>
    /\ UNCHANGED refreshVars

\* rl.GetStatus()
GateStatus ==
    /\ snapshot' = GetStatus(requestCount, dailyLimit, lastResetTime)
    /\ UNCHANGED <<gateVars, waitResult>>
    /\ UNCHANGED refreshVars

\* rl.Reset() -> rl.reset(), lines 103-106
GateReset ==
    /\ requestCount' = 0
    /\ lastResetTime' = now
    /\ UNCHANGED <<dailyLimit, now, snapshot, waitResult>>
    /\ UNCHANGED refreshVars

\* Time passes
GateTick ==
    /\ now < MaxTime
    /\ now' = now + 1
    /\ UNCHANGED <<dailyLimit, requestCount, lastResetTime, snapshot, waitResult>>
    /\ UNCHANGED refreshVars

GateInit ==
    /\ GateNew
    /\ SchedIdle
    /\ MainIdle
    /\ symbolsTable = {}
    /\ runs = <<>>
    /\ fetchLog = {}
    /\ prices = [s \in Symbols |-> {}]
    /\ indicators = {}
    /\ HistEmpty
    /\ AuxIdle

GateNext ==
    \/ GateWait
    \/ GateRecord
    \/ GateStatus
    \/ GateReset
    \/ GateTick

GateSpec == GateInit /\ [][GateNext]_vars

(***************************************************************************)
(* Claims                                                                  *)
(***************************************************************************)
Max(a, b) == IF a >= b THEN a ELSE b

InFlight == {w \in Workers : wpc[w] = "record"}

RefreshEnded == pc = "exited"

RunClosed == runID # 0 /\ runs[runID].status \in {"OK", "ERROR"}

\* C1: with one gate shared by the concurrent workers, the number of HTTP
\* requests sent since the gate's last reset never exceeds daily_limit.
C1_SentWithinLimit == sentInWindow <= dailyLimit

\* C2 as stated: every GetStatus snapshot has used + remaining = limit.
C2_UsedPlusRemaining ==
    snapshot # NoStatus =>
        snapshot.RequestsUsed + snapshot.RequestsLeft = snapshot.DailyLimit

\* C2 amended: every GetStatus snapshot has remaining = max(0, limit - used), so
\* used + remaining = limit while used <= limit, and remaining = 0 with
\* used + remaining = used once more requests are recorded than the limit.
C2_RemainingClamped ==
    snapshot # NoStatus =>
        /\ snapshot.RequestsLeft >= 0
        /\ snapshot.RequestsUsed + snapshot.RequestsLeft =
               Max(snapshot.DailyLimit, snapshot.RequestsUsed)

\* C2 witness: a snapshot taken after more records than the limit.
C2_OverLimitSnapshot ==
    snapshot # NoStatus /\ snapshot.RequestsUsed > snapshot.DailyLimit

\* C3: every HTTP request sent by the provider client is followed by exactly
\* one record(), whatever its outcome: the requests sent are those recorded
\* plus those whose exchange is still in flight.
C3_EverySendRecorded == httpSent = recordCalls + Cardinality(InFlight)

\* C4: during one refresh the provider client is invoked at most once per
\* active symbol, so a refresh over N symbols consumes at most N quota units.
C4_OnceInvokedPerSymbol ==
    /\ \A s \in Symbols : invoked[s] <= 1
    /\ recordCalls <= Cardinality(symbolsTable)

\* C5: a refresh that created a run row has closed it with OK or ERROR when it
\* ends; no run is left RUNNING.
C5_RunClosedAtEnd == (RefreshEnded /\ runID # 0) => RunClosed

\* C6: when the filters remove every indicator (NoSurvivors) the refresh still
\* completes: no indicator row, exit 0, the run closed with OK iff no symbol
\* failed to fetch, symbols_failed counting the fetch failures.
C6_NoSurvivorsCompletes ==
    (RefreshEnded /\ analytics.err = "no_survivors") =>
        /\ exitCode = 0
        /\ indicators = {}
        /\ RunClosed
        /\ runs[runID].status = RunStatus(failureCount)
        /\ runs[runID].failed = failureCount

\* Nothing but fetch failures went wrong: every active symbol without computed
\* indicators has an ok=false fetch_log row, no calculator failed on a long
\* enough series, the filters kept something and the batch upsert worked.
OnlyFetchFailures ==
    /\ activeSymbols # <<>>
    /\ failureCount > 0
    /\ analytics.err \in {"none", "no_indicators"}
    /\ analytics.zero = {}
    /\ \A s \in symbolsTable \ analytics.computed :
          \E r \in fetchLog : r.run = runID /\ r.symbol = s /\ ~r.ok

\* C7: a refresh in which any subset of the symbols, including all, fails to
\* fetch still runs to its end and closes its run, with exit code 0.
C7_FetchFailuresTolerated ==
    (RefreshEnded /\ OnlyFetchFailures) => (exitCode = 0 /\ RunClosed)

\* C8: when the calculator fails for any subset of the active symbols,
\* including all of them, the refresh does not fail because of it.
C8_CalculatorFailuresTolerated ==
    (RefreshEnded /\ analytics.err = "no_indicators") =>
        (exitCode = 0 /\ RunClosed)

\* FetchSymbols has returned its results to runRefresh
FetchReturned == pc \in {"process", "analytics", "finish"}

\* C9: FetchSymbols returns exactly one FetchResult per submitted symbol, for
\* every interleaving of the workers, with or without cancellation.
C9_OneResultPerSymbol ==
    FetchReturned =>
        /\ Len(results) = Len(activeSymbols)
        /\ \A i \in DOMAIN activeSymbols :
              Cardinality({j \in DOMAIN results :
                              results[j].symbol = activeSymbols[i]}) = 1

\* C9 witness: FetchSymbols returned a result per symbol of a full universe in
\* a run that was cancelled midway: one cancelled result, one fetched one.
C9_ReturnedAfterCancel ==
    /\ pc = "process"
    /\ Len(results) = NumSymbols
    /\ \E i, j \in DOMAIN results :
          results[i].err = "cancelled" /\ results[j].success

\* What a worker that took the ctx.Done() branch may still do: it is not inside
\* a provider call, and holds nothing but the cancelled result of its task
ObservedSafe(w) ==
    /\ wpc[w] \notin {"wait", "record"}
    /\ wpc[w] = "push" => wres[w] = CancelledResult(wtask[w])

\* C10: a worker that observes cancellation issues no further provider
\* request, emits a cancelled FetchResult for the task it holds, and exits:
\* from some point on, every worker that observed cancellation has exited
\* (having observed and having exited both last for good).
C10_CancelledWorkerStops ==
    /\ [](\A w \in Workers : observed[w] => ObservedSafe(w))
    /\ <>[](\A w \in Workers : observed[w] => wpc[w] = "done")

\* C10 witness: a worker that observed cancellation has exited and its
\* cancelled result has been delivered.
C10_ObservedAndExited ==
    \E w \in Workers :
       /\ observed[w]
       /\ wpc[w] = "done"
       /\ \E i \in DOMAIN results : results[i].err = "cancelled"

\* The fetch_log rows of the current run for symbol s
LogRows(s) == {r \in fetchLog : r.run = runID /\ r.symbol = s}

\* runRefresh is past its results loop
ResultsProcessed ==
    \/ pc \in {"analytics", "finish"}
    \/ pc = "exited" /\ analytics.err # "not_run"
    \/ pc = "exited" /\ exitCode = 0

MaxRuns == 2

\* Everything but the tables is at rest: no gate traffic, no refresh
Quiet ==
    /\ dailyLimit = MaxLimit
    /\ requestCount = 0
    /\ lastResetTime = 0
    /\ now = 0
    /\ SchedIdle
    /\ MainIdle
    /\ HistEmpty
    /\ snapshot = NoStatus
    /\ waitResult = "none"

quietVars == <<gateVars, cancelled, schedVars, mainVars, histVars, snapshot,
               waitResult>>

\* RunRepository.Create
RunRepositoryCreate ==
    /\ Len(runs) < MaxRuns
    /\ runs' = Append(runs, NewRun)
    /\ UNCHANGED <<quietVars, symbolsTable, fetchLog, prices, indicators, extVars>>

\* RunRepository.Finish(runID, status, symbolsProcessed, symbolsFailed): the
\* UPDATE has no condition on the row's current status
RunRepositoryFinish ==
    /\ \E id \in DOMAIN runs, status \in {"OK", "ERROR"},
          processed \in 0..NumSymbols, failed \in 0..NumSymbols :
          runs' = FinishRun(runs, id, status, processed, failed)
    /\ UNCHANGED <<quietVars, symbolsTable, fetchLog, prices, indicators, extVars>>

RunsInit ==
    /\ Quiet
    /\ RepoIdle
    /\ OthersIdle("repo")
    /\ symbolsTable = {}
    /\ runs = <<>>
    /\ fetchLog = {}
    /\ prices = [s \in Symbols |-> {}]
    /\ indicators = {}

RunsNext == RunRepositoryCreate \/ RunRepositoryFinish

RunsSpec == RunsInit /\ [][RunsNext]_vars

\* FetchLogRepository.Log(entry): the INSERT's error is returned to the caller
FetchLogRepositoryLog ==
    /\ \E run \in 1..MaxRuns, s \in Symbols, ok \in BOOLEAN :
          LET row == [run |-> run, symbol |-> s, ok |-> ok,
                      rows |-> IF ok THEN MaxDate ELSE 0] IN
          /\ fetchLog' = LogInsert(fetchLog, row)
          /\ logErr' = IF \E r \in fetchLog : r.run = run /\ r.symbol = s
                       THEN "UNIQUE constraint failed"
                       ELSE "none"
    /\ UNCHANGED <<quietVars, symbolsTable, runs, prices, indicators, exceptRepo>>

LogInit ==
    /\ Quiet
    /\ RepoIdle
    /\ OthersIdle("repo")
    /\ symbolsTable = {}
    /\ runs = [id \in 1..MaxRuns |-> NewRun]
    /\ fetchLog = {}
    /\ prices = [s \in Symbols |-> {}]
    /\ indicators = {}

LogNext == FetchLogRepositoryLog

LogSpec == LogInit /\ [][LogNext]_vars

\* C12: a run's status leaves RUNNING at most once: no operation changes the
\* status, finished_at or counts of a run that is OK or ERROR.
C12_ClosedRunFrozen ==
    [][\A id \in DOMAIN runs :
          runs[id].status # "RUNNING" => runs'[id] = runs[id]]_vars

\* C19: logging a fetch_log entry for a (run_id, symbol) pair that already has a
\* row returns no error (and leaves the row as it was: at most one row per pair).
C19_DuplicateLogSucceeds ==
    /\ logErr = "none"
    /\ \A r1, r2 \in fetchLog :
          (r1.run = r2.run /\ r1.symbol = r2.symbol) => r1 = r2

(***************************************************************************)
(* runRefresh storing the document fetched for one symbol, lines 300-338   *)
(***************************************************************************)
MaxVal == 2

Vals == 1..MaxVal

\* A numeric string of the payload: the decimal text of a value, or text that
\* is no number
Cells == {[numeric |-> TRUE, value |-> v] : v \in Vals} \cup
         {[numeric |-> FALSE, value |-> 0]}

\* strconv.ParseFloat with its error dropped (lines 304-309): 0 for text that
\* is no number
ParseFloat(c) == IF c.numeric THEN c.value ELSE 0

\* The documents the provider can return: a non-empty map date -> bar
Docs == UNION {[D -> Cells] : D \in SUBSET Dates \ {{}}}

\* PriceRepository.Create, a plain INSERT: the row is added unless
\* PRIMARY KEY(symbol, date) rejects it
PriceCreate(tbl, d, v) == IF tbl[d] = NoRow THEN [tbl EXCEPT ![d] = v] ELSE tbl

\* One iteration of the range loop over the map (in Go's arbitrary order): the
\* bar of date d is parsed and inserted; a UNIQUE failure is ignored, any other
\* failure is printed, and the loop goes on
StoreBar ==
    /\ ppc = "store"
    /\ \E d \in todo, dbOK \in BOOLEAN :
          /\ todo' = todo \ {d}
          /\ IF dbOK
             THEN /\ barRows' = PriceCreate(barRows, d, ParseFloat(timeSeries[d]))
                  /\ stored' = IF barRows[d] = NoRow THEN stored + 1 ELSE stored
                  /\ UNCHANGED dbFailed
             ELSE /\ dbFailed' = TRUE
                  /\ UNCHANGED <<barRows, stored>>
    /\ UNCHANGED <<quietVars, storeVars, exceptPersist, barsBefore, timeSeries, ppc>>

\* lines 333-338: the loop is over, the success row is logged with the count
StoreLog ==
    /\ ppc = "store"
    /\ todo = {}
    /\ fetchLog' = LogInsert(fetchLog,
           [run |-> 1, symbol |-> 1, ok |-> TRUE, rows |-> stored])
    /\ ppc' = "done"
    /\ UNCHANGED <<quietVars, symbolsTable, runs, prices, indicators, exceptPersist,
                   barRows, barsBefore, timeSeries, todo, stored, dbFailed>>

\* The second fetch of a symbol has returned a document; the table holds what
\* earlier refreshes stored
PersistInit ==
    /\ Quiet
    /\ OthersIdle("persist")
    /\ symbolsTable = {1}
    /\ runs = <<NewRun>>
    /\ fetchLog = {}
    /\ prices = [s \in Symbols |-> {}]
    /\ indicators = {}
    /\ barRows \in [Dates -> {NoRow} \cup (0..MaxVal)]
    /\ barsBefore = barRows
    /\ timeSeries \in Docs
    /\ todo = DOMAIN timeSeries
    /\ stored = 0
    /\ dbFailed = FALSE
    /\ ppc = "store"

PersistNext == StoreBar \/ StoreLog

PersistSpec == PersistInit /\ [][PersistNext]_vars

\* The dates of the document that had no row when the refresh began
NewBars == {d \in DOMAIN timeSeries : barsBefore[d] = NoRow}

\* C13: when the symbol's document has been processed, either every new bar of
\* it is stored or none is: no strict subset of the new bars is persisted.
C13_AllOrNothing ==
    ppc = "done" =>
        \/ \A d \in NewBars : barRows[d] # NoRow
        \/ \A d \in NewBars : barRows[d] = NoRow

\* C14: after a symbol was fetched and stored without any failure, every date
\* of the document holds the fetched values, also where a row with other
\* values existed before.
C14_RowsHoldFetchedValues ==
    (/\ ppc = "done"
     /\ ~dbFailed
     /\ \A d \in DOMAIN timeSeries : timeSeries[d].numeric) =>
        \A d \in DOMAIN timeSeries : barRows[d] = timeSeries[d].value

(***************************************************************************)
(* Scorer.ScoreAndRank                                                     *)
(***************************************************************************)
MaxN == 3

\* The tolerance of compareSymbolScores on normalized scores, TolNum/TolDen.
\* The source's is 1e-10; z-scores of the small integers used here are never
\* that close without being equal, so the tolerance is widened with the grid to
\* keep the case of scores that differ by less than it.
TolNum == 2
TolDen == 1

\* R1M, R3M, R6M, R12M of an input: from none to all four positive
ReturnsSet == {<<-1, 0, 0, 0>>, <<1, 0, 0, 0>>, <<-1, 1, 1, 1>>, <<1, 1, 1, 1>>}

IndicatorFields == [Returns : ReturnsSet, Vol6M : 1..2, ADV : 0..1]

Configs == [PenaltyLambda : 0..1, MinADV : {1}, BreadthMinPositive : {1, 3}]

\* The Indicators of symbol sym
IndicatorsOf(f, sym) ==
    [Symbol |-> sym, R1M |-> f.Returns[1], R3M |-> f.Returns[2],
     R6M |-> f.Returns[3], R12M |-> f.Returns[4], Vol6M |-> f.Vol6M, ADV |-> f.ADV]

\* CheckBreadthFilter(returns, minPositive)
CheckBreadthFilter(returns, minPositive) ==
    /\ Len(returns) # 0
    /\ Cardinality({k \in DOMAIN returns : returns[k] > 0}) >= minPositive

\* Mutant of PassesFilters: the liquidity filter is missing
PassesBreadthOnly(ind, cfg) ==
    CheckBreadthFilter(<<ind.R1M, ind.R3M, ind.R6M, ind.R12M>>, cfg.BreadthMinPositive)

\* ScoreAndRank, lines 94-105: the body of the filter loop
PassesFilters(ind, cfg) ==
    /\ CheckBreadthFilter(<<ind.R1M, ind.R3M, ind.R6M, ind.R12M>>, cfg.BreadthMinPositive)
    /\ ~(ind.ADV < cfg.MinADV)

\* ComputeScore, times 4: (R1M + R3M + R6M + R12M) / 4 - lambda * Vol6M.
\* ZScoreNormalize gives v and 4v the same normalized values.
ComputeScore(ind, penaltyLambda) ==
    ind.R1M + ind.R3M + ind.R6M + ind.R12M - 4 * penaltyLambda * ind.Vol6M

SumOf(s) ==
    LET f[i \in 0..Len(s)] == IF i = 0 THEN 0 ELSE f[i - 1] + s[i]
    IN f[Len(s)]

\* ZScoreNormalize: n * n * variance of the raw scores; normalized score i is
\* (scores[i] - mean) / sqrt(variance), and 0 when the variance is 0 or n = 1
SpreadOf(scores) ==
    Len(scores) * SumOf([i \in DOMAIN scores |-> scores[i] * scores[i]])
        - SumOf(scores) * SumOf(scores)

\* math.Abs(a.Score - b.Score) > tolerance, on the normalized scores of raw
\* scores a and b out of n scores of spread v
ScoreDiffers(a, b, n, v) ==
    /\ v # 0
    /\ (a - b) * (a - b) * n * n * TolDen * TolDen > TolNum * TolNum * v

\* compareSymbolScores(a, b); Volatility and Liquidity are integers here, so
\* they differ by more than 1e-10 exactly when they differ
compareSymbolScores(a, b, n, v) ==
    IF ScoreDiffers(a.Raw, b.Raw, n, v) THEN a.Raw > b.Raw
    ELSE IF a.Volatility # b.Volatility THEN a.Volatility < b.Volatility
    ELSE IF a.Liquidity # b.Liquidity THEN a.Liquidity > b.Liquidity
    ELSE a.Symbol < b.Symbol

\* sort.SliceStable on at most 20 elements: insertion sort, each element moved
\* left past the elements it is less than; less[<<a, b>>] is the less function
\* of the call on elements a and b
InsertionSort(s, less) ==
    LET Insert(sorted, x) ==
            LET stay == {j \in DOMAIN sorted : ~less[<<x, sorted[j]>>]}
                k == IF stay = {} THEN 0
                     ELSE CHOOSE j \in stay : \A i \in stay : i <= j
            IN SubSeq(sorted, 1, k) \o <<x>> \o SubSeq(sorted, k + 1, Len(sorted))
        f[i \in 0..Len(s)] == IF i = 0 THEN <<>> ELSE Insert(f[i - 1], s[i])
    IN f[Len(s)]

\* Scorer.ScoreAndRank(indicatorsList) under configuration cfg
ScoreAndRank(list, cfg) ==
    IF Len(list) = 0 THEN [err |-> "no indicators provided", list |-> <<>>]
    ELSE
    LET filtered == SelectSeq(list, LAMBDA ind : PassesFilters(ind, cfg))
        scores == [i \in DOMAIN filtered |-> ComputeScore(filtered[i], cfg.PenaltyLambda)]
        n == Len(filtered)
        v == SpreadOf(scores)
        scored == [i \in DOMAIN filtered |->
                     [Symbol |-> filtered[i].Symbol, Raw |-> scores[i],
                      Volatility |-> filtered[i].Vol6M,
                      Liquidity |-> filtered[i].ADV]]
        sorted == InsertionSort(scored,
                      [p \in {scored[i] : i \in DOMAIN scored} \X {scored[i] : i \in DOMAIN scored}
                          |-> compareSymbolScores(p[1], p[2], n, v)])
    IN IF n = 0
       THEN [err |-> "no symbols passed filtering criteria", list |-> <<>>]
       ELSE [err |-> "none",
             list |-> [i \in DOMAIN sorted |->
                          [Symbol |-> sorted[i].Symbol, Rank |-> i]]]

\* A caller passes a list of at most MaxN indicators, symbol i at position i
ScoreInit ==
    /\ Quiet
    /\ OthersIdle("score")
    /\ symbolsTable = {}
    /\ runs = <<>>
    /\ fetchLog = {}
    /\ prices = [s \in Symbols |-> {}]
    /\ indicators = {}
    /\ \E n \in 0..MaxN : \E f \in [1..n -> IndicatorFields] :
          indicatorsList = [i \in 1..n |-> IndicatorsOf(f[i], i)]
    /\ scoringConfig \in Configs
    /\ symbolScores = NotScored

ScoreAndRankCall ==
    /\ symbolScores = NotScored
    /\ symbolScores' = ScoreAndRank(indicatorsList, scoringConfig)
    /\ UNCHANGED <<quietVars, storeVars, exceptScore, indicatorsList, scoringConfig>>

ScoreNext == ScoreAndRankCall

ScoreSpec == ScoreInit /\ [][ScoreNext]_vars

\* The positions of the input that pass the breadth filter and have
\* adv >= min_adv
Survivors ==
    {i \in DOMAIN indicatorsList :
        /\ Cardinality({k \in {"R1M", "R3M", "R6M", "R12M"} :
                           indicatorsList[i][k] > 0}) >= scoringConfig.BreadthMinPositive
        /\ indicatorsList[i].ADV >= scoringConfig.MinADV}

\* C15: ScoreAndRank returns exactly the indicators that pass both filters,
\* each once, with rank i at position i for i = 1..N; if none passes it fails
\* and returns no ranking.
C15_SurvivorsRankedOneToN ==
    symbolScores # NotScored =>
        IF Survivors = {}
        THEN symbolScores.err # "none" /\ symbolScores.list = <<>>
        ELSE /\ symbolScores.err = "none"
             /\ Len(symbolScores.list) = Cardinality(Survivors)
             /\ \A k \in DOMAIN symbolScores.list : symbolScores.list[k].Rank = k
             /\ \A i \in DOMAIN indicatorsList :
                   Cardinality({k \in DOMAIN symbolScores.list :
                       symbolScores.list[k].Symbol = indicatorsList[i].Symbol})
                     = IF i \in Survivors THEN 1 ELSE 0

\* C15 witness: a full list of which some but not all indicators survive has
\* been ranked.
C15_SomeFilteredOut ==
    /\ symbolScores.err = "none"
    /\ Len(indicatorsList) = MaxN
    /\ Len(symbolScores.list) > 1
    /\ Len(symbolScores.list) < MaxN

\* The permutations of 1..n
Perms(n) == {p \in [1..n -> 1..n] : \A i, j \in 1..n : p[i] = p[j] => i = j}

\* C16: under every permutation of the input list ScoreAndRank gives each
\* symbol the same rank (and fails for the permuted list if it failed).
C16_RanksIgnoreInputOrder ==
    symbolScores # NotScored =>
        \A p \in Perms(Len(indicatorsList)) :
            ScoreAndRank([i \in DOMAIN indicatorsList |-> indicatorsList[p[i]]],
                         scoringConfig) = symbolScores

\* The entries ScoreAndRank hands to its sort for the current input: the
\* survivors with their raw score, volatility and liquidity
SortedEntries ==
    {[Symbol |-> indicatorsList[i].Symbol,
      Raw |-> ComputeScore(indicatorsList[i], scoringConfig.PenaltyLambda),
      Volatility |-> indicatorsList[i].Vol6M,
      Liquidity |-> indicatorsList[i].ADV] : i \in Survivors}

\* a sorts before b among the current entries
Before(a, b) ==
    LET surv == SelectSeq(indicatorsList,
                          LAMBDA ind : PassesFilters(ind, scoringConfig))
        scores == [i \in DOMAIN surv |->
                      ComputeScore(surv[i], scoringConfig.PenaltyLambda)]
    IN compareSymbolScores(a, b, Len(scores), SpreadOf(scores))

\* C25: the ranking comparator is a strict weak order over entries with
\* distinct symbols: irreflexive, asymmetric and transitive, with exactly one
\* of a-before-b and b-before-a for any two distinct symbols.
C25_ComparatorStrictWeakOrder ==
    symbolScores # NotScored =>
    \A a, b, c \in SortedEntries :
        /\ ~Before(a, a)
        /\ Before(a, b) => ~Before(b, a)
        /\ (Before(a, b) /\ Before(b, c)) => Before(a, c)
        /\ a.Symbol # b.Symbol => (Before(a, b) \/ Before(b, a))

(***************************************************************************)
(* IndicatorCalculator.ComputeIndicators                                   *)
(***************************************************************************)
MaxBars == 3

\* The calculator's configured windows, in trading days
Lookbacks == [r1m |-> 1, r3m |-> 1, r6m |-> Lookback, r12m |-> Lookback]
VolWindows == [short |-> 1, long |-> Lookback]

\* A PriceBar; AdjClose 0 is the zero price
Bars == [Date : Dates, AdjClose : 0..MaxVal, Close : {1}, Volume : 1..2]

\* sort.Slice by Date.Before on at most 12 elements: insertion sort
SortByDate(bars) ==
    InsertionSort(bars,
                  [p \in {bars[i] : i \in DOMAIN bars} \X {bars[i] : i \in DOMAIN bars}
                      |-> p[1].Date < p[2].Date])

\* Mutant of calculateReturn: the past bar is taken one position too late
calculateReturnLate(sorted, currentPrice, lookback) ==
    IF Len(sorted) < lookback + 1 THEN [err |-> "insufficient data"]
    ELSE LET pastPrice == sorted[Len(sorted) - lookback + 1].AdjClose IN
         IF pastPrice = 0 THEN [err |-> "past price is zero"]
         ELSE [err |-> "none", num |-> currentPrice, den |-> pastPrice]

\* calculateReturn: the return currentPrice / pastPrice - 1 as the pair
\* [num, den] of the two prices
calculateReturn(sorted, currentPrice, lookback) ==
    IF Len(sorted) < lookback + 1 THEN [err |-> "insufficient data"]
    ELSE LET pastPrice == sorted[Len(sorted) - lookback].AdjClose IN
         IF pastPrice = 0 THEN [err |-> "past price is zero"]
         ELSE [err |-> "none", num |-> currentPrice, den |-> pastPrice]

\* CalculateVolatility: the volatility as the adjusted closes of the window's
\* window + 1 bars, of which it is a function
CalculateVolatility(bars, window) ==
    IF Len(bars) < window + 1 THEN [err |-> "insufficient data"]
    ELSE LET sorted == SortByDate(bars)
             win == SubSeq(sorted, Len(sorted) - window, Len(sorted)) IN
         IF \E i \in DOMAIN win : win[i].AdjClose = 0
         THEN [err |-> "zero price encountered"]
         ELSE [err |-> "none", closes |-> [i \in DOMAIN win |-> win[i].AdjClose]]

\* CalculateADV: the sum of Close * Volume over the window (ADV is sum / window)
CalculateADV(bars, window) ==
    IF Len(bars) < window THEN [err |-> "insufficient data"]
    ELSE LET sorted == SortByDate(bars)
             win == SubSeq(sorted, Len(sorted) - window + 1, Len(sorted)) IN
         [err |-> "none",
          sum |-> SumOf([i \in DOMAIN win |-> win[i].Close * win[i].Volume])]

\* CalculateReturns
CalculateReturns(bars) ==
    IF Len(bars) = 0 THEN [err |-> "no price data provided"]
    ELSE LET sorted == SortByDate(bars)
             currentPrice == sorted[Len(sorted)].AdjClose
             r1m == calculateReturn(sorted, currentPrice, Lookbacks.r1m)
             r3m == calculateReturn(sorted, currentPrice, Lookbacks.r3m)
             r6m == calculateReturn(sorted, currentPrice, Lookbacks.r6m)
             r12m == calculateReturn(sorted, currentPrice, Lookbacks.r12m) IN
         IF r1m.err # "none" THEN [err |-> r1m.err]
         ELSE IF r3m.err # "none" THEN [err |-> r3m.err]
         ELSE IF r6m.err # "none" THEN [err |-> r6m.err]
         ELSE IF r12m.err # "none" THEN [err |-> r12m.err]
         ELSE [err |-> "none", R1M |-> r1m, R3M |-> r3m, R6M |-> r6m, R12M |-> r12m]

\* IndicatorCalculator.ComputeIndicators(symbol, prices)
ComputeIndicators(bars) ==
    IF Len(bars) = 0 THEN [err |-> "no price data"]
    ELSE LET sorted == SortByDate(bars)
             returns == CalculateReturns(sorted)
             vol3m == CalculateVolatility(sorted, VolWindows.short)
             vol6m == CalculateVolatility(sorted, VolWindows.long)
             adv == CalculateADV(sorted, VolWindows.short) IN
         IF returns.err # "none" THEN [err |-> returns.err]
         ELSE IF vol3m.err # "none" THEN [err |-> vol3m.err]
         ELSE IF vol6m.err # "none" THEN [err |-> vol6m.err]
         ELSE IF adv.err # "none" THEN [err |-> adv.err]
         ELSE [err |-> "none", Date |-> sorted[Len(sorted)].Date,
               R1M |-> returns.R1M, R3M |-> returns.R3M, R6M |-> returns.R6M,
               R12M |-> returns.R12M, Vol3M |-> vol3m.closes, Vol6M |-> vol6m.closes,
               ADV |-> adv.sum]

\* A caller passes a series of at most MaxBars bars, in any order, dates
\* possibly repeated
CalcInit ==
    /\ Quiet
    /\ OthersIdle("calc")
    /\ symbolsTable = {}
    /\ runs = <<>>
    /\ fetchLog = {}
    /\ prices = [s \in Symbols |-> {}]
    /\ indicators = {}
    /\ priceBars \in UNION {[1..n -> Bars] : n \in 0..MaxBars}
    /\ calcResult = NotComputed

ComputeIndicatorsCall ==
    /\ calcResult = NotComputed
    /\ calcResult' = ComputeIndicators(priceBars)
    /\ UNCHANGED <<quietVars, storeVars, exceptCalc, priceBars>>

CalcNext == ComputeIndicatorsCall

CalcSpec == CalcInit /\ [][CalcNext]_vars

\* Two returns num / den - 1 are equal
SameReturn(a, b) == a.num * b.den = b.num * a.den

\* Two results of ComputeIndicators agree: both fail, or both succeed with
\* the same date, returns and ADV
SameIndicators(a, b) ==
    IF a.err # "none" \/ b.err # "none"
    THEN a.err # "none" /\ b.err # "none"
    ELSE /\ a.Date = b.Date
         /\ SameReturn(a.R1M, b.R1M) /\ SameReturn(a.R3M, b.R3M)
         /\ SameReturn(a.R6M, b.R6M) /\ SameReturn(a.R12M, b.R12M)
         /\ a.ADV = b.ADV

\* C17: for every price series, duplicate dates included, and every
\* permutation of it, the calculator returns the same date, returns and ADV, or
\* fails in both cases.
C17_CalculatorIgnoresInputOrder ==
    calcResult # NotComputed =>
        \A p \in Perms(Len(priceBars)) :
            SameIndicators(
                ComputeIndicators([i \in DOMAIN priceBars |-> priceBars[p[i]]]),
                calcResult)

\* The series with, for every date, only the bar supplied last for that date
LastWriterWins(bars) ==
    SelectSeq([i \in DOMAIN bars |-> [bar |-> bars[i], pos |-> i]],
              LAMBDA e : \A j \in DOMAIN bars :
                            bars[j].Date = e.bar.Date => j <= e.pos)

\* C26: when the series holds several bars for one date, the calculator keeps
\* only the last-supplied bar of that date: its result equals its result on the
\* de-duplicated series, so duplicates do not count as trading days.
C26_DuplicateDatesLastWins ==
    calcResult # NotComputed =>
        SameIndicators(
            calcResult,
            ComputeIndicators([i \in DOMAIN LastWriterWins(priceBars) |->
                                  LastWriterWins(priceBars)[i].bar]))

\* C27: for a lookback n over the date-sorted series of L bars, the return
\* calculation succeeds exactly when L >= n + 1 and the adjusted close of the
\* bar n positions before the last is non-zero, and it then uses exactly the
\* last bar and that bar; with L = n it fails for lack of history.
C27_ReturnNeedsLookbackPlusOne ==
    calcResult # NotComputed =>
        LET sorted == SortByDate(priceBars)
            L == Len(sorted)
            cur == IF L = 0 THEN 0 ELSE sorted[L].AdjClose
        IN /\ \A n \in 1..MaxBars :
                LET r == calculateReturn(sorted, cur, n) IN
                /\ (r.err = "none") <=> (L >= n + 1 /\ sorted[L - n].AdjClose # 0)
                /\ r.err = "none" =>
                      /\ r.num = sorted[L].AdjClose
                      /\ r.den = sorted[L - n].AdjClose
                /\ L = n => r.err = "insufficient data"
           /\ calcResult.err = "none" =>
                /\ calcResult.R1M = calculateReturn(sorted, cur, Lookbacks.r1m)
                /\ calcResult.R12M = calculateReturn(sorted, cur, Lookbacks.r12m)
           /\ (L > 0 /\ calculateReturn(sorted, cur, Lookbacks.r12m).err # "none")
                => calcResult.err # "none"

\* C27 witness: a series of exactly lookback + 1 bars with ascending dates and
\* different closes for which the calculator returned its returns.
C27_ExactlyEnoughBars ==
    /\ calcResult # NotComputed
    /\ calcResult.err = "none"
    /\ Len(priceBars) = Lookback + 1
    /\ \A i, j \in DOMAIN priceBars :
          i < j => /\ priceBars[i].Date < priceBars[j].Date
                   /\ priceBars[i].AdjClose # priceBars[j].AdjClose

(***************************************************************************)
(* DB.Migrate and DB.Rollback, with every statement able to fail           *)
(***************************************************************************)
NumMigrations == 2

\* getCurrentVersion: SELECT COALESCE(MAX(version), 0) FROM schema_migrations
MaxVersion(rows) ==
    IF rows = {} THEN 0 ELSE CHOOSE v \in rows : \A u \in rows : u <= v

\* Mutant of TxRollback: what the transaction wrote stays in the database
TxKeep(db, t) == [rows |-> t.rows, objects |-> t.objects]

\* defer tx.Rollback(): the database is as it was when the transaction began
TxRollback(db, t) == db

\* The committed database
Committed == [rows |-> versionRows, objects |-> schemaObjects]

\* A call returns err without a transaction open
Return(err) ==
    /\ migErr' = err
    /\ mpc' = "idle"
    /\ tx' = NoTx

\* A call returns err from inside its transaction, which is rolled back
Abort(err) ==
    /\ versionRows' = TxRollback(Committed, tx).rows
    /\ schemaObjects' = TxRollback(Committed, tx).objects
    /\ Return(err)

\* Migrate, lines 20-30: initMigrationsTable and getCurrentVersion
MigrateStart ==
    /\ mpc = "idle"
    /\ \E outcome \in {"init fails", "version fails", "ok"} :
          IF outcome = "init fails"
          THEN /\ Return("failed to initialize migrations table")
               /\ UNCHANGED <<migTable, mIdx, currentVersion>>
          ELSE /\ migTable' = TRUE
               /\ IF outcome = "version fails"
                  THEN /\ Return("failed to get current version")
                       /\ UNCHANGED <<mIdx, currentVersion>>
                  ELSE /\ currentVersion' = MaxVersion(versionRows)
                       /\ mIdx' = 1
                       /\ mpc' = "loop"
                       /\ UNCHANGED <<tx, migErr>>
    /\ UNCHANGED <<versionRows, schemaObjects, migrations>>
    /\ UNCHANGED <<quietVars, storeVars, exceptMig>>

\* Migrate, lines 43-46: a migration that is already applied is skipped
MigrateSkip ==
    /\ mpc = "loop"
    /\ mIdx <= Len(migrations)
    /\ migrations[mIdx] <= currentVersion
    /\ mIdx' = mIdx + 1
    /\ UNCHANGED <<migTable, versionRows, schemaObjects, tx, mpc, currentVersion,
                   migErr, migrations>>
    /\ UNCHANGED <<quietVars, storeVars, exceptMig>>

\* applyMigration, lines 81-90: Begin and the up-script
ApplyUp ==
    /\ mpc = "loop"
    /\ mIdx <= Len(migrations)
    /\ migrations[mIdx] > currentVersion
    /\ \E outcome \in {"begin fails", "up fails", "ok"} :
          IF outcome = "ok"
          THEN /\ tx' = [open |-> TRUE, rows |-> versionRows,
                         objects |-> schemaObjects \cup {migrations[mIdx]}]
               /\ mpc' = "record"
               /\ UNCHANGED migErr
          ELSE Return("failed to apply migration")
    /\ UNCHANGED <<migTable, versionRows, schemaObjects, mIdx, currentVersion,
                   migrations>>
    /\ UNCHANGED <<quietVars, storeVars, exceptMig>>

\* applyMigration, lines 92-96: INSERT INTO schema_migrations; version is the
\* table's PRIMARY KEY
ApplyRecord ==
    /\ mpc = "record"
    /\ \E ok \in BOOLEAN :
          IF ok /\ migrations[mIdx] \notin tx.rows
          THEN /\ tx' = [tx EXCEPT !.rows = @ \cup {migrations[mIdx]}]
               /\ mpc' = "commit"
               /\ UNCHANGED <<versionRows, schemaObjects, migErr>>
          ELSE Abort("failed to record migration")
    /\ UNCHANGED <<migTable, mIdx, currentVersion, migrations>>
    /\ UNCHANGED <<quietVars, storeVars, exceptMig>>

\* applyMigration, lines 98-102: Commit, then the loop goes on
ApplyCommit ==
    /\ mpc = "commit"
    /\ \E ok \in BOOLEAN :
          IF ok
          THEN /\ versionRows' = tx.rows
               /\ schemaObjects' = tx.objects
               /\ tx' = NoTx
               /\ mIdx' = mIdx + 1
               /\ mpc' = "loop"
               /\ UNCHANGED migErr
          ELSE /\ Abort("failed to commit transaction")
               /\ UNCHANGED mIdx
    /\ UNCHANGED <<migTable, currentVersion, migrations>>
    /\ UNCHANGED <<quietVars, storeVars, exceptMig>>

\* Migrate, line 53: every migration has been looked at
MigrateReturn ==
    /\ mpc = "loop"
    /\ mIdx > Len(migrations)
    /\ Return("none")
    /\ UNCHANGED <<migTable, versionRows, schemaObjects, mIdx, currentVersion,
                   migrations>>
    /\ UNCHANGED <<quietVars, storeVars, exceptMig>>

\* Rollback, lines 106-150: getCurrentVersion, the search for the migration,
\* Begin and the down-script
RollbackStart ==
    /\ mpc = "idle"
    /\ \E outcome \in {"version fails", "begin fails", "down fails", "ok"} :
          LET version == MaxVersion(versionRows) IN
          IF outcome = "version fails" \/ ~migTable
          THEN Return("failed to get current version") /\ UNCHANGED currentVersion
          ELSE /\ currentVersion' = version
               /\ IF version = 0 THEN Return("no migrations to rollback")
                  ELSE IF \A i \in DOMAIN migrations : migrations[i] # version
                  THEN Return("migration version not found")
                  ELSE IF outcome # "ok" THEN Return("failed to rollback")
                  ELSE /\ tx' = [open |-> TRUE, rows |-> versionRows,
                                 objects |-> schemaObjects \ {version}]
                       /\ mpc' = "rb_delete"
                       /\ UNCHANGED migErr
    /\ UNCHANGED <<migTable, versionRows, schemaObjects, mIdx, migrations>>
    /\ UNCHANGED <<quietVars, storeVars, exceptMig>>

\* Rollback, lines 152-155: DELETE FROM schema_migrations WHERE version = ?
RollbackDelete ==
    /\ mpc = "rb_delete"
    /\ \E ok \in BOOLEAN :
          IF ok
          THEN /\ tx' = [tx EXCEPT !.rows = @ \ {currentVersion}]
               /\ mpc' = "rb_commit"
               /\ UNCHANGED <<versionRows, schemaObjects, migErr>>
          ELSE Abort("failed to remove migration record")
    /\ UNCHANGED <<migTable, mIdx, currentVersion, migrations>>
    /\ UNCHANGED <<quietVars, storeVars, exceptMig>>

\* Rollback, lines 157-161: Commit
RollbackCommit ==
    /\ mpc = "rb_commit"
    /\ \E ok \in BOOLEAN :
          IF ok
          THEN /\ versionRows' = tx.rows
               /\ schemaObjects' = tx.objects
               /\ Return("none")
          ELSE Abort("failed to commit rollback")
    /\ UNCHANGED <<migTable, mIdx, currentVersion, migrations>>
    /\ UNCHANGED <<quietVars, storeVars, exceptMig>>

\* A new database file; the binary carries its list of migrations
MigInit ==
    /\ Quiet
    /\ OthersIdle("migrate")
    /\ symbolsTable = {}
    /\ runs = <<>>
    /\ fetchLog = {}
    /\ prices = [s \in Symbols |-> {}]
    /\ indicators = {}
    /\ migTable = FALSE
    /\ versionRows = {}
    /\ schemaObjects = {}
    /\ tx = NoTx
    /\ mpc = "idle"
    /\ mIdx = 0
    /\ currentVersion = 0
    /\ migErr = "none"
    /\ \E n \in 1..NumMigrations : migrations = [i \in 1..n |-> i]

MigNext ==
    \/ MigrateStart
    \/ MigrateSkip
    \/ ApplyUp
    \/ ApplyRecord
    \/ ApplyCommit
    \/ MigrateReturn
    \/ RollbackStart
    \/ RollbackDelete
    \/ RollbackCommit

MigSpec == MigInit /\ [][MigNext]_vars

\* C18: under any sequence of Migrate and Rollback calls, failed steps
\* included, a version row is present exactly when the version's schema objects
\* are, a failed call leaving neither behind; a version is applied only while it
\* is not recorded, so it is recorded at most once and a repeated Migrate
\* applies nothing.
C18_VersionRowsMatchSchema ==
    /\ versionRows = schemaObjects
    /\ mpc \in {"record", "commit"} => migrations[mIdx] \notin versionRows
    /\ mpc = "loop" /\ currentVersion = migrations[Len(migrations)] =>
          tx = NoTx /\ versionRows = {migrations[i] : i \in DOMAIN migrations}

\* C18 witness: a migration failed at recording its version after its
\* up-script had run, and neither the objects nor the row are there.
C18_FailedRecordLeftNothing ==
    /\ mpc = "idle"
    /\ migErr = "failed to record migration"
    /\ schemaObjects = {}
    /\ versionRows = {}

(***************************************************************************)
(* PrioritizeFetchOrder                                                    *)
(***************************************************************************)
MaxLen == 3

\* time.Time{}: the zero time, before every time a fetch took place
ZeroTime == 0

\* Mutant of After: a symbol is also moved behind one fetched at the same time
NotBefore(a, b) == a >= b

\* time.Time.After
After(a, b) == a > b

\* lines 147-158: the priority list, a never-fetched symbol at the zero time
Priorities(syms, times) ==
    [i \in DOMAIN syms |->
        [symbol |-> syms[i],
         lastFetched |-> IF times[syms[i]] = 0 THEN ZeroTime ELSE times[syms[i]]]]

\* line 164: the body of the inner loop at position j
SwapIfAfter(p, j) ==
    IF After(p[j].lastFetched, p[j + 1].lastFetched)
    THEN [p EXCEPT ![j] = p[j + 1], ![j + 1] = p[j]]
    ELSE p

\* lines 163-167: the inner loop, positions 1..last
BubblePass(p, last) ==
    LET g[j \in 0..last] == IF j = 0 THEN p ELSE SwapIfAfter(g[j - 1], j)
    IN g[last]

\* lines 162-168: the bubble sort
BubbleSort(p) ==
    LET n == Len(p)
        f[i \in 0..n] == IF i = 0 THEN p ELSE BubblePass(f[i - 1], n - i)
    IN IF n = 0 THEN p ELSE f[n - 1]

\* PrioritizeFetchOrder(symbols, lastFetchTimes)
PrioritizeFetchOrder(syms, times) ==
    LET sorted == BubbleSort(Priorities(syms, times))
    IN [i \in DOMAIN sorted |-> sorted[i].symbol]

\* The lists of distinct symbols out of 1..MaxLen
SymbolLists ==
    {s \in UNION {[1..n -> 1..MaxLen] : n \in 0..MaxLen} :
        \A i, j \in DOMAIN s : s[i] = s[j] => i = j}

\* A caller passes a list of distinct symbols and the time of the last fetch of
\* the symbols that were fetched (an instant after the zero time)
PrioInit ==
    /\ Quiet
    /\ OthersIdle("prioritize")
    /\ symbolsTable = {}
    /\ runs = <<>>
    /\ fetchLog = {}
    /\ prices = [s \in Symbols |-> {}]
    /\ indicators = {}
    /\ symbolList \in SymbolLists
    /\ lastFetchTimes \in [1..MaxLen -> 0..MaxTime]
    /\ orderedSymbols = NotOrdered

PrioritizeFetchOrderCall ==
    /\ orderedSymbols = NotOrdered
    /\ orderedSymbols' = PrioritizeFetchOrder(symbolList, lastFetchTimes)
    /\ UNCHANGED <<quietVars, storeVars, exceptPrio, symbolList, lastFetchTimes>>

PrioNext == PrioritizeFetchOrderCall

PrioSpec == PrioInit /\ [][PrioNext]_vars

\* The position of symbol s in the list
PositionIn(list, s) == CHOOSE i \in DOMAIN list : list[i] = s

\* C20: PrioritizeFetchOrder returns a permutation of its input in which every
\* never-fetched symbol precedes every fetched one, fetched symbols are in
\* non-decreasing order of last fetch time, and symbols with equal times, all
\* never-fetched ones included, keep their input order.
C20_StableByStaleness ==
    orderedSymbols # NotOrdered =>
        /\ Len(orderedSymbols) = Len(symbolList)
        /\ \A i \in DOMAIN symbolList : \E k \in DOMAIN orderedSymbols :
              orderedSymbols[k] = symbolList[i]
        /\ \A a, b \in DOMAIN orderedSymbols :
              a < b =>
                LET ta == lastFetchTimes[orderedSymbols[a]]
                    tb == lastFetchTimes[orderedSymbols[b]] IN
                /\ tb = 0 => ta = 0
                /\ ta <= tb
                /\ ta = tb => PositionIn(symbolList, orderedSymbols[a])
                                < PositionIn(symbolList, orderedSymbols[b])

\* C20 witness: a full list with a never-fetched symbol behind a fetched one
\* and two symbols fetched at the same time has been reordered.
C20_ReorderedWithTies ==
    /\ orderedSymbols # NotOrdered
    /\ Len(symbolList) = MaxLen
    /\ orderedSymbols # symbolList
    /\ \E i, j \in DOMAIN symbolList :
          /\ i < j
          /\ lastFetchTimes[symbolList[i]] > 0
          /\ lastFetchTimes[symbolList[j]] = 0
    /\ \E i, j \in DOMAIN symbolList :
          /\ i # j
          /\ lastFetchTimes[symbolList[i]] = lastFetchTimes[symbolList[j]]

\* C24: when a bar of the fetched document has a numeric field that cannot be
\* parsed, the symbol is recorded as failed for the refresh (its fetch_log row
\* has ok = false) and no price row with a substituted value for that field is
\* stored.
C24_ParseErrorFailsSymbol ==
    (ppc = "done" /\ \E d \in DOMAIN timeSeries : ~timeSeries[d].numeric) =>
        /\ \E r \in fetchLog : r.run = 1 /\ r.symbol = 1 /\ ~r.ok
        /\ \A d \in DOMAIN timeSeries :
              (~timeSeries[d].numeric /\ barsBefore[d] = NoRow) => barRows[d] = NoRow

(***************************************************************************)
(* The provider client called sequentially by one caller: each call of     *)
(* FetchDailyAdjusted runs Wait, the GET and RecordRequest to its end       *)
(* before the next call begins, and time passes between calls.              *)
(***************************************************************************)
\* c.FetchDailyAdjusted(s, ...) by a direct caller; waitResult keeps what the
\* call's rl.Wait() returned
ClientFetch ==
    /\ \E s \in Symbols, o \in Outcomes :
         /\ invoked[s] <= MaxLimit
         /\ FetchDailyAdjusted(s, o)
         /\ waitResult' = IF AdjustedError(o) = "quota" THEN "quota" ELSE "ok"
    /\ UNCHANGED <<dailyLimit, now, cancelled, schedVars, mainVars, storeVars,
                   observed, analytics, snapshot, extVars>>

ClientNext == ClientFetch \/ GateTick

ClientSpec == GateInit /\ [][ClientNext]_vars

\* A step is a call of the provider client
ClientCalled == \E s \in Symbols : invoked'[s] = invoked[s] + 1

\* C21: with no reset due, the gate's check succeeds exactly when
\* request_count < daily_limit, so after daily_limit recorded requests every
\* later check fails with QuotaExceeded; a failed check leaves request_count
\* and last_reset_time unchanged, and the provider client then sends no HTTP
\* request (the call returns at once, without a retry).
C21_QuotaExhaustion ==
    [][(ClientCalled /\ ~WaitResets(now, lastResetTime)) =>
          /\ (waitResult' = "ok") <=> (requestCount < dailyLimit)
          /\ waitResult' = "ok" => httpSent' = httpSent + 1
          /\ waitResult' # "ok" =>
                /\ waitResult' = "quota"
                /\ requestCount' = requestCount
                /\ lastResetTime' = lastResetTime
                /\ httpSent' = httpSent
                /\ recordCalls' = recordCalls]_vars

\* C21 witness: daily_limit requests were sent and recorded without a reset,
\* and the next call was refused without sending.
C21_RefusedAtLimit ==
    /\ waitResult = "quota"
    /\ lastResetTime = 0
    /\ recordCalls = dailyLimit
    /\ requestCount = dailyLimit
    /\ httpSent = dailyLimit

\* C22: a check made when at least 24 hours have passed since last_reset_time
\* sets request_count to 0 and last_reset_time to now before testing the
\* limit, so it succeeds even if the count had reached the limit; a check made
\* earlier changes neither request_count nor last_reset_time.
C22_CheckResetsAfterDay ==
    [][GateWait =>
          IF now - lastResetTime >= Day
          THEN /\ requestCount' = 0
               /\ lastResetTime' = now
               /\ waitResult' = "ok"
          ELSE /\ requestCount' = requestCount
               /\ lastResetTime' = lastResetTime]_vars

\* C22 witness: a check succeeded on a gate whose count had reached its limit
\* before the 24 hours passed.
C22_ResetByCheck ==
    /\ waitResult = "ok"
    /\ requestCount = 0
    /\ lastResetTime = Day
    /\ now = Day
    /\ snapshot.RequestsUsed >= snapshot.DailyLimit
    /\ snapshot.DailyLimit >= 1
    /\ snapshot.LastResetTime = 0

(***************************************************************************)
(* Successive refreshes against one database. Each invocation of the CLI   *)
(* is a new process over the same tables; a refresh is followed here by    *)
(* what it does to tables runs, prices and indicators.                     *)
(***************************************************************************)
\* Indicators.Date of a symbol: the date of its latest stored bar
LatestDate(s) == CHOOSE d \in prices[s] : \A e \in prices[s] : e <= d

\* ScoreAndRank, lines 141-145: the survivors in some order, ranks 1..N
Rankings(surv) ==
    {rk \in [surv -> 1..Cardinality(surv)] :
        \A a, b \in surv : rk[a] = rk[b] => a = b}

\* IndicatorRepository.UpsertBatch: ON CONFLICT(symbol, date) DO UPDATE
UpsertBatch(tbl, rows) ==
    {r \in tbl : ~\E n \in rows : n.symbol = r.symbol /\ n.date = r.date} \cup rows

\* IndicatorRepository.GetTopN(date, n) for n at least the number of rows
GetTopN(tbl, date) == {r \in tbl : r.date = date /\ r.rank # 0}

\* What the steps of a later refresh leave alone
rerunFrame == <<gateVars, cancelled, schedVars, activeSymbols, results, idx,
                histVars, snapshot, waitResult, fetchLog, indicators, exceptRerun>>

\* runRepo.Create, part_000 lines 229-233
RerunCreate ==
    /\ pc = "start"
    /\ Len(runs) < MaxRuns
    /\ runs' = Append(runs, NewRun)
    /\ runID' = Len(runs) + 1
    /\ pc' = "fetch"
    /\ UNCHANGED <<rerunFrame, successCount, failureCount, exitCode, symbolsTable,
                   prices, indicatorRows>>

\* FetchSymbols returns "no symbols provided": log.Fatalf, line 267
RerunNoSymbols ==
    /\ pc = "fetch"
    /\ symbolsTable = {}
    /\ Fatal
    /\ UNCHANGED <<rerunFrame, successCount, failureCount, runID, symbolsTable,
                   runs, prices, indicatorRows>>

\* lines 265-355: the symbols of ok were fetched and their bars stored, the
\* other active symbols failed
RerunStore ==
    /\ pc = "fetch"
    /\ symbolsTable # {}
    /\ \E ok \in SUBSET symbolsTable, doc \in DocWindows :
         /\ prices' = [s \in Symbols |->
                          IF s \in ok THEN prices[s] \cup doc ELSE prices[s]]
         /\ successCount' = Cardinality(ok)
         /\ failureCount' = Cardinality(symbolsTable \ ok)
    /\ pc' = "analytics"
    /\ UNCHANGED <<rerunFrame, runID, exitCode, symbolsTable, runs, indicatorRows>>

\* ComputeAllIndicators returns an error (no indicators, no survivors, or the
\* upsert failed): log.Fatalf, line 380
RerunAnalyticsFailed ==
    /\ pc = "analytics"
    /\ Fatal
    /\ UNCHANGED <<rerunFrame, successCount, failureCount, runID, symbolsTable,
                   runs, prices, indicatorRows>>

\* ComputeAllIndicators: the active symbols with enough history that pass
\* the calculator and the filters are ranked 1..N and their rows upserted
RerunRank ==
    /\ pc = "analytics"
    /\ \E surv \in SUBSET {s \in symbolsTable : HasHistory(s)} :
         /\ surv # {}
         /\ \E rk \in Rankings(surv) :
              indicatorRows' = UpsertBatch(indicatorRows,
                  {[symbol |-> s, date |-> LatestDate(s), rank |-> rk[s]] :
                      s \in surv})
    /\ pc' = "finish"
    /\ UNCHANGED <<rerunFrame, successCount, failureCount, runID, exitCode,
                   symbolsTable, runs, prices>>

\* runRepo.Finish, lines 386-392, and the return of main
RerunFinish ==
    /\ pc = "finish"
    /\ runs' = FinishRun(runs, runID, RunStatus(failureCount), successCount,
                         failureCount)
    /\ pc' = "exited"
    /\ exitCode' = 0
    /\ UNCHANGED <<rerunFrame, successCount, failureCount, runID, symbolsTable,
                   prices, indicatorRows>>

\* The CLI is invoked again: a new process, the same database
RerunInvoke ==
    /\ pc = "exited"
    /\ Len(runs) < MaxRuns
    /\ pc' = "start"
    /\ runID' = 0
    /\ exitCode' = -1
    /\ successCount' = 0
    /\ failureCount' = 0
    /\ UNCHANGED <<rerunFrame, symbolsTable, runs, prices, indicatorRows>>

\* Between two refreshes a symbol is deactivated (symbols.active = 0)
Deactivate ==
    /\ pc = "exited"
    /\ \E s \in symbolsTable : symbolsTable' = symbolsTable \ {s}
    /\ UNCHANGED <<rerunFrame, pc, successCount, failureCount, runID, exitCode,
                   runs, prices, indicatorRows>>

RerunInit ==
    /\ GateNew
    /\ SchedIdle
    /\ MainIdle
    /\ \E n \in 0..NumSymbols : symbolsTable = 1..n
    /\ runs = <<>>
    /\ fetchLog = {}
    /\ \E old \in {{}, Dates} :
         prices = [s \in Symbols |-> IF s \in symbolsTable THEN old ELSE {}]
    /\ indicators = {}
    /\ HistEmpty
    /\ snapshot = NoStatus
    /\ waitResult = "none"
    /\ OthersIdle("rerun")
    /\ indicatorRows = {}

RerunNext ==
    \/ RerunCreate
    \/ RerunNoSymbols
    \/ RerunStore
    \/ RerunAnalyticsFailed
    \/ RerunRank
    \/ RerunFinish
    \/ RerunInvoke
    \/ Deactivate

RerunSpec == RerunInit /\ [][RerunNext]_vars

\* C23: at every point between a refresh's run creation and its close, table
\* runs holds exactly one row with status RUNNING, whatever refreshes ran
\* before, those that ended early included.
C23_OneRunningRow ==
    pc \in {"fetch", "analytics", "finish"} =>
        Cardinality({id \in DOMAIN runs : runs[id].status = "RUNNING"}) = 1

\* C30: after any sequence of refreshes the indicator rows stored for one date
\* carry pairwise distinct ranks, so the top-N query for a date never returns
\* two rows with the same rank.
C30_RanksDistinctPerDate ==
    \A d \in Dates : \A a, b \in GetTopN(indicatorRows, d) :
        a.rank = b.rank => a.symbol = b.symbol

(***************************************************************************)
(* The Scheduler called directly. The results channel is made once, by     *)
(* NewScheduler, and every FetchSymbols call on the Scheduler uses it; its *)
(* capacity of 100 is scaled down so that the symbols outnumber it.        *)
(***************************************************************************)
\* The scaled capacity of s.resultsChan
ScaledBuffer == 1

\* NewScheduler(avClient, maxWorkers); the caller fetches every symbol
DirectInit ==
    /\ GateNew
    /\ SchedIdle
    /\ MainIdle
    /\ symbolsTable = Symbols
    /\ runs = <<>>
    /\ fetchLog = {}
    /\ prices = [s \in Symbols |-> {}]
    /\ indicators = {}
    /\ HistEmpty
    /\ snapshot = NoStatus
    /\ waitResult = "none"
    /\ OthersIdle("scheduler")
    /\ resultCap = ScaledBuffer
    /\ reused = FALSE

\* One FetchSymbols call with more symbols than the channel holds, under the
\* fairness of SchedulerSpec
BufferSpec ==
    /\ DirectInit
    /\ [][SchedulerNext]_vars
    /\ \A w \in Workers : WF_vars(WorkerStep(w))
    /\ WF_vars(CloseResults)
    /\ WF_vars(Collect)
    /\ WF_vars(CollectDone)

\* s.FetchSymbols(ctx, symbols, ...) called again after the first call
\* returned, lines 50-70: a new task queue and new workers, the same
\* s.resultsChan
FetchSymbolsAgain ==
    /\ pc = "process"
    /\ ~reused
    /\ reused' = TRUE
    /\ tasks' = activeSymbols
    /\ wg' = MaxWorkers
    /\ wpc' = [w \in Workers |-> "recv"]
    /\ results' = <<>>
    /\ pc' = "collect"
    /\ UNCHANGED <<gateVars, cancelled, resultsChan, chanClosed, wtask, wres,
                   activeSymbols, idx, successCount, failureCount, runID, exitCode,
                   storeVars, histVars, snapshot, waitResult, logErr, persistVars,
                   scoreVars, calcVars, migVars, prioVars, indicatorRows, resultCap>>

\* s.resultsChan <- result on the closed channel: panic "send on closed
\* channel", the process dies with exit code 2
WorkerPanic(w) ==
    /\ wpc[w] = "push"
    /\ chanClosed
    /\ wpc' = [v \in Workers |-> IF v = w THEN "panic" ELSE "done"]
    /\ pc' = "exited"
    /\ exitCode' = 2
    /\ UNCHANGED auxVars
    /\ UNCHANGED <<gateVars, cancelled, tasks, resultsChan, chanClosed, wg, wtask,
                   wres, activeSymbols, results, idx, successCount, failureCount,
                   runID, storeVars, histVars>>

ReuseNext ==
    \/ SchedulerNext
    \/ FetchSymbolsAgain
    \/ \E w \in Workers : WorkerPanic(w)

ReuseSpec == DirectInit /\ [][ReuseNext]_vars

\* C28: under fair scheduling, with every provider call returning, FetchSymbols
\* terminates also when the symbols outnumber the results buffer: eventually,
\* and for good, every worker has exited, the results channel is closed and
\* drained, and the collector has returned; no worker stays blocked on the
\* results channel. A call that has begun (pc = "collect") does not last for
\* ever, and when it has returned the workers are gone.
C28_FetchSymbolsTerminates ==
    /\ <>[](pc # "collect")
    /\ [](pc = "process" =>
            /\ chanClosed
            /\ resultsChan = <<>>
            /\ \A w \in Workers : wpc[w] = "done")

\* C28 witness: with more symbols than the channel holds, a worker is blocked
\* on the full results channel.
C28_WorkerBlockedOnFullChannel ==
    /\ NumSymbols > resultCap
    /\ Len(resultsChan) = resultCap
    /\ \E w \in Workers : wpc[w] = "push"

\* C29: a second FetchSymbols call on the same Scheduler, made after the first
\* returned, also returns exactly one result per submitted symbol, and no
\* worker fails while delivering its result.
C29_SecondCallReturnsAllResults ==
    /\ \A w \in Workers : wpc[w] # "panic"
    /\ (reused /\ pc = "process") =>
          /\ Len(results) = Len(activeSymbols)
          /\ \A i \in DOMAIN activeSymbols :
                Cardinality({j \in DOMAIN results :
                                results[j].symbol = activeSymbols[i]}) = 1

====
